---- MODULE Spec2Model ----
(***************************************************************************)
(* StudyBuddy: the quiz engine (utils/quiz_generator.py) and the           *)
(* conversation engine (utils/chat_manager.py) over the model gateway      *)
(* (utils/gemini_client.py), the text extractor (utils/pdf_processor.py)   *)
(* and the Streamlit application that drives them (app.py).  A step of the *)
(* application is one run of main() on the session state: the run of a     *)
(* user action, the run that st.rerun() asks for, or a run that Streamlit  *)
(* stops at one of its st calls because the next event is waiting; the     *)
(* session keeps what a stopped run wrote before that call.                *)
(*                                                                         *)
(* Text is a sequence of one-character strings.  In a model response a     *)
(* JSON object literal is one token (a string of ObjectTokens) and         *)
(* JsonObject gives the dict it decodes to; such a token stands for the    *)
(* literal together with the comma that separates it from the next array   *)
(* element.  The strings inside the literals hold no '?', no newline and   *)
(* no bracket, and a literal occurs only between a '[' and a ']'.          *)
(***************************************************************************)
EXTENDS Naturals, Integers, Sequences, FiniteSets, TLC

VARIABLES
    pdf_content,     \* generate_quiz argument
    quiz_type,       \* generate_quiz argument
    num_questions,   \* generate_quiz argument
    quiz_outcome,    \* what the gateway did in the last generate_quiz call
    quiz_call,       \* "idle" | "returned" | "raised"
    quiz_error,      \* message of the error raised, "" when none
    quiz_questions,  \* the list generate_quiz returned
    calls,           \* the gateway calls issued by the last operation
    pdf_cache,       \* ChatManager.pdf_cache
    chat_history,    \* st.session_state.chat_history
    last_op,         \* the ChatManager method called last
    user_question,   \* get_response argument
    chat_document,   \* get_response argument (pdf_content)
    chat_call,       \* "idle" | "returned" | "raised"
    chat_error,      \* message of the error raised, "" when none
    chat_answer,     \* the text get_response returned
    uploaded_file,   \* the file in the uploader, NoFile when there is none
    extract_call,    \* "idle" | "returned" | "raised"
    extract_error,   \* message of the error raised, "" when none
    extracted,       \* the text extract_text returned
    stats_questions, \* get_quiz_statistics argument (questions)
    stats_answers,   \* get_quiz_statistics argument (answers)
    quiz_stats,      \* the dict get_quiz_statistics returned, NoStats before
    pdf_text,               \* st.session_state.pdf_text
    pdf_processed,          \* st.session_state.pdf_processed
    uploaded_file_name,     \* st.session_state.uploaded_file_name
    session_quiz_questions, \* st.session_state.quiz_questions
    current_quiz_index,     \* st.session_state.current_quiz_index
    quiz_score,             \* st.session_state.quiz_score
    quiz_answers,           \* st.session_state.quiz_answers
    app_action,      \* the event of the last run of main(): the button whose handler
                     \* it entered, else "upload" for a changed uploader, else "run"
    app_run,         \* how the last run left main(): "ended" (its last line, or an
                     \* exception nobody caught), "rerun" (st.rerun()) or
                     \* "stopped" (at an st call, for a waiting event)
    app_error,       \* the error the handler of the action ended with: the message
                     \* of the exception it caught and showed, or let through; ""
                     \* when none, and when the run was stopped at the st.error
                     \* that was to show it
    sidebar_error    \* str(e) of the 'Error processing PDF' message the sidebar of
                     \* the last run showed, "" when it showed none

quiz_vars == << pdf_content, quiz_type, num_questions, quiz_outcome, quiz_call,
                quiz_error, quiz_questions >>

chat_vars == << pdf_cache, chat_history, last_op, user_question, chat_document,
                chat_call, chat_error, chat_answer >>

pdf_vars == << extract_call, extract_error, extracted >>

stats_vars == << stats_questions, stats_answers, quiz_stats >>

session_vars == << pdf_text, pdf_processed, uploaded_file_name,
                   session_quiz_questions, current_quiz_index, quiz_score,
                   quiz_answers, app_action, app_run, app_error, sidebar_error >>

vars == << quiz_vars, chat_vars, calls, uploaded_file, pdf_vars, stats_vars,
           session_vars >>

----------------------------------------------------------------------------
(* Bounds of the model. *)

MaxEntries == 2
MaxLines == 4
MaxTurns == 7
MaxPageLen == 2
MaxPages == 2
MaxQuizLen == 2
\* quiz_score is followed up to this value
MaxScore == 2
\* a quiz is generated, and a question is sent in a session that holds a quiz,
\* while the conversation has no more turns than this
MaxQuizTurns == 2

----------------------------------------------------------------------------
(* Program constants. *)

MinQuestions == 1
MaxQuestions == 10
MaxFallback == 3
MinOptions == 2
QuizPromptChars == 3000
SummaryPromptChars == 4000
FallbackChars == 2000
KeyPointsChars == 2000
HistoryWindow == 6
MinSlider == 3
MaxSlider == 10

Min(a, b) == IF a <= b THEN a ELSE b

Min3(a, b, c) == Min(a, Min(b, c))

----------------------------------------------------------------------------
(* Python str helpers. *)

Whitespace == {" ", "\n"}

RECURSIVE lstrip(_)
lstrip(s) ==
    IF s # <<>> /\ Head(s) \in Whitespace THEN lstrip(Tail(s)) ELSE s

RECURSIVE rstrip(_)
rstrip(s) ==
    IF s # <<>> /\ s[Len(s)] \in Whitespace
    THEN rstrip(SubSeq(s, 1, Len(s) - 1))
    ELSE s

strip(s) == rstrip(lstrip(s))

\* s[:n]
Prefix(s, n) == SubSeq(s, 1, Min(n, Len(s)))

\* s.split('\n'): the lines of s, always at least one
RECURSIVE SplitFrom(_, _, _)
SplitFrom(s, cur, acc) ==
    IF s = <<>> THEN Append(acc, cur)
    ELSE IF Head(s) = "\n" THEN SplitFrom(Tail(s), <<>>, Append(acc, cur))
    ELSE SplitFrom(Tail(s), Append(cur, Head(s)), acc)

split_lines(s) == SplitFrom(s, <<>>, <<>>)

RECURSIVE SelectLines(_)
SelectLines(ls) ==
    IF ls = <<>> THEN <<>>
    ELSE IF \E k \in 1..Len(Head(ls)) : Head(ls)[k] = "?"
         THEN <<Head(ls)>> \o SelectLines(Tail(ls))
         ELSE SelectLines(Tail(ls))

\* [line for line in lines if '?' in line]
question_lines(response) == SelectLines(split_lines(response))

----------------------------------------------------------------------------
(* The JSON the model may answer with. *)

ObjectTokens ==
    { "{sa-noq}", "{notype}", "{tf}", "{sa}", "{sa-exp}", "{mc-noopt}",
      "{mc-nocorrect}", "{mc-1opt}", "{mc-ok}", "{mc-bad}",
      "{mc-str}", "{mc-str-bad}" }

NumberToken == "7"

\* the value of the key 'options': a JSON array holds its elements, a JSON
\* string its characters
JsonArray(items) == [json |-> "array", items |-> items]

JsonString(chars) == [json |-> "string", items |-> chars]

\* len(v): the elements of a list, the characters of a str
len(v) == Len(v.items)

\* v[i]: element i of a list, character i of a str
getitem(v, i) == v.items[i + 1]

\* x in v: x is an element of the list v, or a substring of the str v; the
\* strings tested hold at most one character, and such a string is a substring
\* when it is empty or one of the characters
contains(v, x) ==
    IF v.json = "string"
    THEN x = "" \/ \E k \in 1..Len(v.items) : v.items[k] = x
    ELSE \E k \in 1..Len(v.items) : v.items[k] = x

\* json.loads of one element: the dict of an object literal; a number is no dict
JsonObject(tok) ==
    CASE tok = "{sa-noq}" ->
           [type |-> "short_answer", expected_answer |-> "E0"]
      [] tok = "{notype}" ->
           [question |-> <<"q", "1">>, expected_answer |-> "E1"]
      [] tok = "{tf}" ->
           [question |-> <<"q", "2">>, type |-> "true_false"]
      [] tok = "{sa}" ->
           [question |-> <<"q", "3">>, type |-> "short_answer"]
      [] tok = "{sa-exp}" ->
           [question |-> <<"q", "4">>, type |-> "short_answer",
            expected_answer |-> "E4"]
      [] tok = "{mc-noopt}" ->
           [question |-> <<"q", "5">>, type |-> "multiple_choice",
            correct_answer |-> "A"]
      [] tok = "{mc-nocorrect}" ->
           [question |-> <<"q", "6">>, type |-> "multiple_choice",
            options |-> JsonArray(<<"A", "B">>)]
      [] tok = "{mc-1opt}" ->
           [question |-> <<"q", "7">>, type |-> "multiple_choice",
            options |-> JsonArray(<<"A">>), correct_answer |-> "A"]
      [] tok = "{mc-ok}" ->
           [question |-> <<"q", "8">>, type |-> "multiple_choice",
            options |-> JsonArray(<<"A", "B">>), correct_answer |-> "B",
            explanation |-> "X8"]
      [] tok = "{mc-bad}" ->
           [question |-> <<"q", "9">>, type |-> "multiple_choice",
            options |-> JsonArray(<<"A", "B">>), correct_answer |-> "C"]
      [] tok = "{mc-str}" ->
           [question |-> <<"q", "1", "0">>, type |-> "multiple_choice",
            options |-> JsonString(<<"A", "B">>), correct_answer |-> ""]
      [] tok = "{mc-str-bad}" ->
           [question |-> <<"q", "1", "1">>, type |-> "multiple_choice",
            options |-> JsonString(<<"A", "B">>), correct_answer |-> "C"]
      [] tok = NumberToken -> [json |-> "number"]

NestedArray == [json |-> "array"]

IsDict(v) == "json" \notin DOMAIN v

\* the elements up to the ']' that closes the array being read
RECURSIVE ParseElements(_, _)
ParseElements(t, acc) ==
    IF t = <<>> THEN [ok |-> FALSE, value |-> <<>>, rest |-> <<>>]
    ELSE IF Head(t) = "]" THEN [ok |-> TRUE, value |-> acc, rest |-> Tail(t)]
    ELSE IF Head(t) \in Whitespace THEN ParseElements(Tail(t), acc)
    ELSE IF Head(t) = "["
         THEN LET inner == ParseElements(Tail(t), <<>>)
              IN  IF inner.ok
                  THEN ParseElements(inner.rest, Append(acc, NestedArray))
                  ELSE [ok |-> FALSE, value |-> <<>>, rest |-> <<>>]
    ELSE IF Head(t) \in ObjectTokens \cup {NumberToken}
         THEN ParseElements(Tail(t), Append(acc, JsonObject(Head(t))))
    ELSE [ok |-> FALSE, value |-> <<>>, rest |-> <<>>]

\* json.loads(json_str) for a span that starts with '[': ok = FALSE is JSONDecodeError
json_loads(span) ==
    LET r == ParseElements(Tail(span), <<>>)
    IN  IF r.ok /\ lstrip(r.rest) = <<>>
        THEN [ok |-> TRUE, value |-> r.value]
        ELSE [ok |-> FALSE, value |-> <<>>]

\* re.search(r'\[.*\]', response, re.DOTALL): from the first '[' to the last ']'
re_search(response) ==
    LET opens  == { i \in 1..Len(response) : response[i] = "[" }
        closes == { j \in 1..Len(response) : response[j] = "]" }
    IN  IF \E i \in opens : \E j \in closes : i < j
        THEN LET first == CHOOSE i \in opens : \A k \in opens : i <= k
                 last  == CHOOSE j \in closes : \A k \in closes : k <= j
             IN  [found |-> TRUE, span |-> SubSeq(response, first, last)]
        ELSE [found |-> FALSE, span |-> <<>>]

----------------------------------------------------------------------------
(* QuizGenerator *)

FallbackOptions ==
    JsonArray(<<"A) Option 1", "B) Option 2", "C) Option 3", "D) Option 4">>)

GenericQuestion ==
    [question |-> <<"What are the main topics covered in this study material?">>,
     type |-> "short_answer",
     expected_answer |-> "Please summarize the key topics from the uploaded PDF."]

\* mutant: the requested kind is ignored
FallbackQuestionAnyKind(stem, kind) ==
    [question |-> stem,
     type |-> "short_answer",
     expected_answer |->
         "Please refer to the study material for the complete answer."]

FallbackQuestion(stem, kind) ==
    IF kind = "multiple_choice" \/ kind = "mixed"
    THEN [question |-> stem,
          type |-> "multiple_choice",
          options |-> FallbackOptions,
          correct_answer |-> "A) Option 1",
          explanation |-> "This is a fallback question due to parsing issues."]
    ELSE [question |-> stem,
          type |-> "short_answer",
          expected_answer |->
              "Please refer to the study material for the complete answer."]

\* mutant: the cap of three stems is missing
_create_fallback_questions_uncapped(response, kind, count) ==
    LET qlines == question_lines(response)
        n == Min(count, Len(qlines))
        questions == [i \in 1..n |-> FallbackQuestion(qlines[i], kind)]
    IN  IF questions = <<>> THEN <<GenericQuestion>> ELSE questions

_create_fallback_questions(response, kind, count) ==
    LET qlines == question_lines(response)
        n == Min3(count, Len(qlines), MaxFallback)
        questions == [i \in 1..n |-> FallbackQuestion(qlines[i], kind)]
    IN  IF questions = <<>> THEN <<GenericQuestion>> ELSE questions

\* one pass of the loop body: "raise" (TypeError: 'in' on a number), "drop"
\* (continue; a nested list holds no string 'question') or "keep"
ValidateOne(q) ==
    IF q = NestedArray THEN [act |-> "drop", item |-> q]
    ELSE IF ~IsDict(q) THEN [act |-> "raise", item |-> q]
    ELSE IF "question" \notin DOMAIN q \/ "type" \notin DOMAIN q
         THEN [act |-> "drop", item |-> q]
    ELSE IF q.type = "multiple_choice"
         THEN IF "options" \notin DOMAIN q \/ "correct_answer" \notin DOMAIN q
              THEN [act |-> "drop", item |-> q]
              ELSE IF len(q.options) < MinOptions
              THEN [act |-> "drop", item |-> q]
              ELSE IF ~contains(q.options, q.correct_answer)
              THEN [act |-> "keep",
                    item |-> [q EXCEPT !.correct_answer = getitem(q.options, 0)]]
              ELSE [act |-> "keep", item |-> q]
    ELSE IF q.type = "short_answer"
         THEN IF "expected_answer" \notin DOMAIN q
              THEN [act |-> "keep",
                    item |-> [f \in DOMAIN q \cup {"expected_answer"} |->
                                 IF f = "expected_answer"
                                 THEN "Answer not provided" ELSE q[f]]]
              ELSE [act |-> "keep", item |-> q]
    ELSE [act |-> "keep", item |-> q]

\* mutant: the loop stops once expected_count entries are kept (backfill)
RECURSIVE ValidateFromBackfill(_, _, _, _)
ValidateFromBackfill(questions, i, expected_count, validated) ==
    IF i > Len(questions) \/ Len(validated) >= expected_count
    THEN [raised |-> FALSE, value |-> validated]
    ELSE LET r == ValidateOne(questions[i])
         IN  IF r.act = "raise" THEN [raised |-> TRUE, value |-> <<>>]
             ELSE ValidateFromBackfill(questions, i + 1, expected_count,
                                       IF r.act = "keep"
                                       THEN Append(validated, r.item) ELSE validated)

RECURSIVE ValidateFrom(_, _, _, _)
ValidateFrom(questions, i, expected_count, validated) ==
    IF i > Len(questions) \/ i - 1 >= expected_count
    THEN [raised |-> FALSE, value |-> validated]
    ELSE LET r == ValidateOne(questions[i])
         IN  IF r.act = "raise" THEN [raised |-> TRUE, value |-> <<>>]
             ELSE ValidateFrom(questions, i + 1, expected_count,
                               IF r.act = "keep"
                               THEN Append(validated, r.item) ELSE validated)

\* mutant: the break at expected_count is missing
_validate_questions_uncapped(questions, expected_count) ==
    ValidateFrom(questions, 1, Len(questions), <<>>)

_validate_questions(questions, expected_count) ==
    ValidateFrom(questions, 1, expected_count, <<>>)

\* path: which branch produced the list
_parse_quiz_response(response, kind, count) ==
    LET m == re_search(response)
    IN  IF m.found
        THEN LET d == json_loads(m.span)
             IN  IF d.ok
                 THEN LET v == _validate_questions(d.value, count)
                      IN  [raised |-> v.raised, value |-> v.value,
                           path |-> "decoded"]
                 ELSE [raised |-> FALSE,
                       value |-> _create_fallback_questions(response, kind, count),
                       path |-> "decode_failed"]
        ELSE LET v == _validate_questions(
                          _create_fallback_questions(response, kind, count), count)
             IN  [raised |-> v.raised, value |-> v.value, path |-> "no_span"]

GatewayFailure == [ok |-> FALSE, text |-> <<>>]

QuizCall(content, kind, count) ==
    [op |-> "generate_quiz_content",
     content |-> Prefix(content, QuizPromptChars),
     quiz_type |-> kind,
     num_questions |-> count]

\* mutant: the document is tested without strip()
QuizInputErrorNoStrip(content, count) ==
    IF content = <<>> THEN "PDF content is empty"
    ELSE IF count < MinQuestions \/ count > MaxQuestions
         THEN "Number of questions must be between 1 and 10"
    ELSE ""

\* the input check of generate_quiz: the message of the ValueError, "" when it passes
QuizInputError(content, count) ==
    IF strip(content) = <<>> THEN "PDF content is empty"
    ELSE IF count < MinQuestions \/ count > MaxQuestions
         THEN "Number of questions must be between 1 and 10"
    ELSE ""

generate_quiz(content, kind, count, outcome) ==
    IF QuizInputError(content, count) # ""
    THEN [raised |-> TRUE, error |-> QuizInputError(content, count),
          value |-> <<>>, calls |-> <<>>]
    ELSE IF ~outcome.ok
    THEN [raised |-> TRUE, error |-> "Failed to generate quiz",
          value |-> <<>>, calls |-> <<QuizCall(content, kind, count)>>]
    ELSE LET p == _parse_quiz_response(outcome.text, kind, count)
         IN  [raised |-> p.raised,
              error |-> IF p.raised THEN "TypeError" ELSE "",
              value |-> p.value,
              calls |-> <<QuizCall(content, kind, count)>>]

\* a percentage kept as the quotient it is computed from: num / den * times
Percentage(num, den) ==
    IF den > 0 THEN [num |-> num, den |-> den, times |-> 100]
    ELSE [num |-> 0, den |-> 1, times |-> 100]

\* the loop over enumerate(questions) from position i (0-based) on
RECURSIVE StatisticsLoop(_, _, _, _, _)
StatisticsLoop(questions, answers, i, mc_questions, correct_answers) ==
    IF i >= Len(questions)
    THEN [mc_questions |-> mc_questions, correct_answers |-> correct_answers]
    ELSE LET question == questions[i + 1]
         IN  IF question.type = "multiple_choice"
             THEN StatisticsLoop(questions, answers, i + 1, mc_questions + 1,
                      IF i \in DOMAIN answers /\ answers[i] = question.correct_answer
                      THEN correct_answers + 1 ELSE correct_answers)
             ELSE StatisticsLoop(questions, answers, i + 1, mc_questions,
                                 correct_answers)

\* mutant: accuracy is taken over all questions
get_quiz_statistics_over_total(questions, answers) ==
    LET n == StatisticsLoop(questions, answers, 0, 0, 0)
    IN  [total_questions |-> Len(questions),
         answered_questions |-> Cardinality(DOMAIN answers),
         multiple_choice_questions |-> n.mc_questions,
         correct_answers |-> n.correct_answers,
         accuracy_percentage |-> Percentage(n.correct_answers, Len(questions)),
         completion_percentage |->
             Percentage(Cardinality(DOMAIN answers), Len(questions))]

get_quiz_statistics(questions, answers) ==
    LET n == StatisticsLoop(questions, answers, 0, 0, 0)
    IN  [total_questions |-> Len(questions),
         answered_questions |-> Cardinality(DOMAIN answers),
         multiple_choice_questions |-> n.mc_questions,
         correct_answers |-> n.correct_answers,
         accuracy_percentage |-> Percentage(n.correct_answers, n.mc_questions),
         completion_percentage |->
             Percentage(Cardinality(DOMAIN answers), Len(questions))]

NoStats == [total_questions |-> -1]

----------------------------------------------------------------------------
(* ChatManager *)

\* hashlib.md5(pdf_content.encode()).hexdigest(), taken as collision-free
md5(content) == <<"md5", content>>

EmptyCache == <<>>

CachePut(cache, h, entry) ==
    [k \in DOMAIN cache \cup {h} |-> IF k = h THEN entry ELSE cache[k]]

KeyPointsCall(content, outcome) ==
    [op |-> "generate_response",
     purpose |-> "key_points",
     document |-> Prefix(content, SummaryPromptChars),
     ok |-> outcome.ok,
     text |-> outcome.text]

\* mutant: the cache is never consulted
_extract_key_points_uncached(cache, content, outcome) ==
    IF outcome.ok
    THEN [key_points |-> outcome.text,
          cache |-> CachePut(cache, md5(content), [key_points |-> outcome.text]),
          calls |-> <<KeyPointsCall(content, outcome)>>]
    ELSE [key_points |-> Prefix(content, FallbackChars),
          cache |-> cache,
          calls |-> <<KeyPointsCall(content, outcome)>>]

_extract_key_points(cache, content, outcome) ==
    IF md5(content) \in DOMAIN cache
    THEN [key_points |-> cache[md5(content)].key_points,
          cache |-> cache,
          calls |-> <<>>]
    ELSE IF outcome.ok
    THEN [key_points |-> outcome.text,
          cache |-> CachePut(cache, md5(content), [key_points |-> outcome.text]),
          calls |-> <<KeyPointsCall(content, outcome)>>]
    ELSE [key_points |-> Prefix(content, FallbackChars),
          cache |-> cache,
          calls |-> <<KeyPointsCall(content, outcome)>>]

\* msg['role'].capitalize()
capitalize(role) ==
    CASE role = "user" -> "User"
      [] role = "assistant" -> "Assistant"

\* chat_history[-6:]
recent_history(history) ==
    SubSeq(history,
           IF Len(history) > HistoryWindow
           THEN Len(history) - HistoryWindow + 1 ELSE 1,
           Len(history))

HistoryPart(history) ==
    IF history = <<>> THEN <<>>
    ELSE << [part |-> "Recent Conversation",
             lines |-> [i \in 1..Len(recent_history(history)) |->
                          << capitalize(recent_history(history)[i].role),
                             recent_history(history)[i].content >>]] >>

\* context_parts, before the join
_build_chat_context(cache, history, content, outcome) ==
    IF content # <<>>
    THEN LET k == _extract_key_points(cache, content, outcome)
         IN  [context |-> << [part |-> "Document Key Points",
                              text |-> Prefix(k.key_points, KeyPointsChars)] >>
                          \o HistoryPart(history),
              cache |-> k.cache,
              calls |-> k.calls]
    ELSE [context |-> HistoryPart(history), cache |-> cache, calls |-> <<>>]

AnswerCall(question, context, outcome) ==
    [op |-> "generate_response",
     purpose |-> "answer",
     question |-> question,
     context |-> context,
     ok |-> outcome.ok,
     text |-> outcome.text]

\* \w, over the characters of the model
WordChars ==
    {"a", "b", "j", "k", "m", "q", "x"} \cup
    {"0", "1", "2", "3", "4", "5", "6", "7", "8", "9"}

\* re.sub(r'\.(\w)', r'. \1', text)
RECURSIVE SpaceAfterPeriods(_)
SpaceAfterPeriods(s) ==
    IF s = <<>> THEN <<>>
    ELSE IF Head(s) = "." /\ Len(s) >= 2 /\ s[2] \in WordChars
         THEN <<".", " ">> \o SpaceAfterPeriods(Tail(s))
    ELSE <<Head(s)>> \o SpaceAfterPeriods(Tail(s))

\* the length of the run of whitespace s starts with
RECURSIVE RunLength(_)
RunLength(s) ==
    IF s # <<>> /\ Head(s) \in Whitespace THEN 1 + RunLength(Tail(s)) ELSE 0

\* re.sub(r'\n\s*\n\s*\n', '\n\n', text): a match starts at a newline and runs
\* to the last newline of the whitespace around it, three newlines at least
RECURSIVE CollapseBlankLines(_)
CollapseBlankLines(s) ==
    IF s = <<>> THEN <<>>
    ELSE LET n == RunLength(s)
             newlines == { k \in 1..n : s[k] = "\n" }
             last == CHOOSE k \in newlines : \A j \in newlines : j <= k
         IN  IF Head(s) = "\n" /\ Cardinality(newlines) >= 3
             THEN <<"\n", "\n">> \o CollapseBlankLines(SubSeq(s, last + 1, Len(s)))
             ELSE <<Head(s)>> \o CollapseBlankLines(Tail(s))

_format_response(response) == CollapseBlankLines(SpaceAfterPeriods(strip(response)))

NoAnswer == <<>>

\* mutant: a failed answer call is swallowed and the key points are returned
get_response_swallow(cache, history, question, content, summary, reply) ==
    IF strip(question) = <<>>
    THEN [raised |-> TRUE, error |-> "Question cannot be empty",
          answer |-> NoAnswer, cache |-> cache, calls |-> <<>>]
    ELSE LET c == _build_chat_context(cache, history, content, summary)
             sent == c.calls \o <<AnswerCall(question, c.context, reply)>>
         IN  [raised |-> FALSE, error |-> "",
              answer |-> IF reply.ok THEN _format_response(reply.text)
                         ELSE Prefix(content, FallbackChars),
              cache |-> c.cache, calls |-> sent]

\* mutant: the question is tested without strip()
get_response_no_strip(cache, history, question, content, summary, reply) ==
    IF question = <<>>
    THEN [raised |-> TRUE, error |-> "Question cannot be empty",
          answer |-> NoAnswer, cache |-> cache, calls |-> <<>>]
    ELSE LET c == _build_chat_context(cache, history, content, summary)
             sent == c.calls \o <<AnswerCall(question, c.context, reply)>>
         IN  IF reply.ok
             THEN [raised |-> FALSE, error |-> "",
                   answer |-> _format_response(reply.text),
                   cache |-> c.cache, calls |-> sent]
             ELSE [raised |-> TRUE, error |-> "Failed to generate response",
                   answer |-> NoAnswer, cache |-> c.cache, calls |-> sent]

get_response(cache, history, question, content, summary, reply) ==
    IF strip(question) = <<>>
    THEN [raised |-> TRUE, error |-> "Question cannot be empty",
          answer |-> NoAnswer, cache |-> cache, calls |-> <<>>]
    ELSE LET c == _build_chat_context(cache, history, content, summary)
             sent == c.calls \o <<AnswerCall(question, c.context, reply)>>
         IN  IF reply.ok
             THEN [raised |-> FALSE, error |-> "",
                   answer |-> _format_response(reply.text),
                   cache |-> c.cache, calls |-> sent]
             ELSE [raised |-> TRUE, error |-> "Failed to generate response",
                   answer |-> NoAnswer, cache |-> c.cache, calls |-> sent]

----------------------------------------------------------------------------
(* PDFProcessor *)

None == "None"

\* uploaded_file is None
NoFile == [name |-> "", readable |-> FALSE, pages |-> <<>>]

\* extracted_text after the loop over pdf.pages: a page without text adds nothing
RECURSIVE PagesText(_)
PagesText(pages) ==
    IF pages = <<>> THEN <<>>
    ELSE (IF Head(pages) # <<>> THEN Head(pages) \o <<"\n", "\n">> ELSE <<>>)
         \o PagesText(Tail(pages))

\* the stripped lines that are not empty
RECURSIVE CleanedLines(_)
CleanedLines(ls) ==
    IF ls = <<>> THEN <<>>
    ELSE IF strip(Head(ls)) # <<>>
         THEN <<strip(Head(ls))>> \o CleanedLines(Tail(ls))
         ELSE CleanedLines(Tail(ls))

\* '\n'.join(lines)
RECURSIVE join_lines(_)
join_lines(ls) ==
    IF ls = <<>> THEN <<>>
    ELSE IF Len(ls) = 1 THEN ls[1]
    ELSE ls[1] \o <<"\n">> \o join_lines(Tail(ls))

HasTripleNewline(s) ==
    \E k \in 1..(Len(s) - 2) : s[k] = "\n" /\ s[k + 1] = "\n" /\ s[k + 2] = "\n"

\* text.replace('\n\n\n', '\n\n'): every occurrence, left to right
RECURSIVE ReplaceTriple(_)
ReplaceTriple(s) ==
    IF s = <<>> THEN <<>>
    ELSE IF Len(s) >= 3 /\ s[1] = "\n" /\ s[2] = "\n" /\ s[3] = "\n"
         THEN <<"\n", "\n">> \o ReplaceTriple(SubSeq(s, 4, Len(s)))
    ELSE <<Head(s)>> \o ReplaceTriple(Tail(s))

\* while '\n\n\n' in cleaned_text: ...
RECURSIVE CollapseNewlines(_)
CollapseNewlines(s) ==
    IF HasTripleNewline(s) THEN CollapseNewlines(ReplaceTriple(s)) ELSE s

\* mutant: the lines are kept as they are
_clean_text_unstripped(text) ==
    CollapseNewlines(text)

_clean_text(text) ==
    CollapseNewlines(join_lines(CleanedLines(split_lines(text))))

extract_text(file) ==
    IF ~file.readable
    THEN [raised |-> TRUE, error |-> "Failed to process PDF: cannot open",
          text |-> <<>>]
    ELSE IF strip(PagesText(file.pages)) = <<>>
    THEN [raised |-> TRUE, text |-> <<>>,
          error |-> "Failed to process PDF: No text could be extracted from the PDF"]
    ELSE [raised |-> FALSE, error |-> "", text |-> _clean_text(PagesText(file.pages))]

----------------------------------------------------------------------------
(* Inputs of the quiz engine. *)

PdfContents == { <<>>, <<" ">>, <<"\n", " ">>, <<"a">>, <<" ", "a", "\n">> }

QuizTypes == { "multiple_choice", "short_answer", "mixed" }

Counts == (MinQuestions - 1) .. (MaxQuestions + 1)

TextLines == { <<"x">>, <<"?">>, <<"x", "?">> }

RECURSIVE JoinLines(_)
JoinLines(ls) ==
    IF Len(ls) = 1 THEN ls[1]
    ELSE ls[1] \o <<"\n">> \o JoinLines(Tail(ls))

RECURSIVE Flatten(_)
Flatten(ss) == IF ss = <<>> THEN <<>> ELSE Head(ss) \o Flatten(Tail(ss))

\* free text without brackets
TextResponses ==
    { JoinLines(ls) : ls \in UNION { [1..k -> TextLines] : k \in 1..MaxLines } }

Suffixes == { <<>>, <<"]">>, <<"\n", "?">>, <<"x", "[">> }

\* a JSON array, alone or followed by more text
ArrayResponses ==
    { <<"[">> \o es \o <<"]">> \o s :
        es \in UNION { [1..k -> ObjectTokens \cup {NumberToken}] : k \in 0..MaxEntries },
        s \in Suffixes }

\* free text inside brackets: a span that is no JSON
BracketedText == { <<"[">> \o t \o <<"]">> : t \in TextResponses }

Responses == TextResponses \cup ArrayResponses \cup BracketedText

QuizOutcomes == { GatewayFailure } \cup { [ok |-> TRUE, text |-> r] : r \in Responses }

----------------------------------------------------------------------------
(* The quiz engine called once on each input. *)

ChatIdle ==
    /\ last_op = "none"
    /\ user_question = <<>>
    /\ chat_document = <<>>
    /\ chat_call = "idle"
    /\ chat_error = ""
    /\ chat_answer = NoAnswer

PdfIdle ==
    /\ extract_call = "idle"
    /\ extract_error = ""
    /\ extracted = <<>>

StatsIdle ==
    /\ stats_questions = <<>>
    /\ stats_answers = <<>>
    /\ quiz_stats = NoStats

\* initialize_session_state() on a new session (chat_history apart)
SessionIdle ==
    /\ pdf_text = <<>>
    /\ pdf_processed = FALSE
    /\ uploaded_file_name = None
    /\ session_quiz_questions = <<>>
    /\ current_quiz_index = 0
    /\ quiz_score = 0
    /\ quiz_answers = <<>>
    /\ app_action = "none"
    /\ app_run = "ended"
    /\ app_error = ""
    /\ sidebar_error = ""

QuizIdle ==
    /\ quiz_outcome = GatewayFailure
    /\ quiz_call = "idle"
    /\ quiz_error = ""
    /\ quiz_questions = <<>>

InitQuiz ==
    /\ pdf_content \in PdfContents
    /\ quiz_type \in QuizTypes
    /\ num_questions \in Counts
    /\ QuizIdle
    /\ calls = <<>>
    /\ pdf_cache = EmptyCache
    /\ chat_history = <<>>
    /\ ChatIdle
    /\ uploaded_file = NoFile
    /\ PdfIdle
    /\ StatsIdle
    /\ SessionIdle

\* quiz_generator.generate_quiz(pdf_content, quiz_type, num_questions); the
\* gateway answers only when the input check lets the call through
GenerateQuiz ==
    /\ quiz_call = "idle"
    /\ \E outcome \in IF QuizInputError(pdf_content, num_questions) # ""
                      THEN { GatewayFailure } ELSE QuizOutcomes :
          LET r == generate_quiz(pdf_content, quiz_type, num_questions, outcome)
          IN  /\ quiz_outcome' = outcome
              /\ quiz_call' = IF r.raised THEN "raised" ELSE "returned"
              /\ quiz_error' = r.error
              /\ quiz_questions' = r.value
              /\ calls' = r.calls
    /\ UNCHANGED << pdf_content, quiz_type, num_questions, chat_vars,
                    uploaded_file, pdf_vars, stats_vars,
                    session_vars >>

NextQuiz == GenerateQuiz

SpecQuiz == InitQuiz /\ [][NextQuiz]_vars

----------------------------------------------------------------------------
(* Inputs of the conversation engine. *)

Questions == { <<>>, <<" ", "\n">>, <<"q">>, <<" ", "q">> }

ChatDocuments == { <<>>, <<"a">>, <<"b">> }

SummaryOutcomes ==
    { GatewayFailure, [ok |-> TRUE, text |-> <<"k">>], [ok |-> TRUE, text |-> <<"j">>] }

AnswerTexts ==
    { <<"a">>, <<"a", ".", "1">>,
      <<" ", "a", ".", "b", "\n", " ", "\n", "\n", "a", ".", "\n">> }

AnswerOutcomes == { GatewayFailure } \cup { [ok |-> TRUE, text |-> t] : t \in AnswerTexts }

TurnDigits == <<"1", "2", "3", "4", "5", "6", "7", "8", "9">>

\* the history the shell has built after n turns of a conversation
Conversation(n) ==
    [i \in 1..n |->
        [role |-> IF i % 2 = 1 THEN "user" ELSE "assistant",
         content |-> <<"m", TurnDigits[i]>>]]

----------------------------------------------------------------------------
(* One ChatManager instance and its callers. *)

InitChat ==
    /\ pdf_content = <<>>
    /\ quiz_type = "multiple_choice"
    /\ num_questions = MinQuestions
    /\ QuizIdle
    /\ calls = <<>>
    /\ pdf_cache = EmptyCache
    /\ chat_history \in { Conversation(n) : n \in 0..MaxTurns }
    /\ ChatIdle
    /\ uploaded_file = NoFile
    /\ PdfIdle
    /\ StatsIdle
    /\ SessionIdle

\* chat_manager.get_response(user_question, pdf_content)
GetResponse ==
    \E q \in Questions, d \in ChatDocuments,
       summary \in SummaryOutcomes, reply \in AnswerOutcomes :
        LET r == get_response(pdf_cache, chat_history, q, d, summary, reply)
        IN  /\ last_op' = "get_response"
            /\ user_question' = q
            /\ chat_document' = d
            /\ chat_call' = IF r.raised THEN "raised" ELSE "returned"
            /\ chat_error' = r.error
            /\ chat_answer' = r.answer
            /\ pdf_cache' = r.cache
            /\ calls' = r.calls
            /\ UNCHANGED << chat_history, quiz_vars, uploaded_file, pdf_vars, stats_vars,
                    session_vars >>

\* chat_manager.clear_cache()
ClearCache ==
    /\ pdf_cache' = EmptyCache
    /\ last_op' = "clear_cache"
    /\ user_question' = <<>>
    /\ chat_document' = <<>>
    /\ chat_call' = "idle"
    /\ chat_error' = ""
    /\ chat_answer' = NoAnswer
    /\ calls' = <<>>
    /\ UNCHANGED << chat_history, quiz_vars, uploaded_file, pdf_vars, stats_vars,
                    session_vars >>

\* chat_manager.clear_history()
ClearHistory ==
    /\ chat_history' = <<>>
    /\ last_op' = "clear_history"
    /\ user_question' = <<>>
    /\ chat_document' = <<>>
    /\ chat_call' = "idle"
    /\ chat_error' = ""
    /\ chat_answer' = NoAnswer
    /\ calls' = <<>>
    /\ UNCHANGED << pdf_cache, quiz_vars, uploaded_file, pdf_vars, stats_vars,
                    session_vars >>

NextChat == GetResponse \/ ClearCache \/ ClearHistory

SpecChat == InitChat /\ [][NextChat]_vars

----------------------------------------------------------------------------
(* The text extractor called once on each file. *)

PageChars == { "a", " ", "\n" }

\* what page.extract_text() may give; <<>> is a page without text
PageTexts == UNION { [1..k -> PageChars] : k \in 0..MaxPageLen }

PdfFiles ==
    { [name |-> "f.pdf", readable |-> FALSE, pages |-> <<>>] } \cup
    { [name |-> "f.pdf", readable |-> TRUE, pages |-> ps] :
        ps \in UNION { [1..k -> PageTexts] : k \in 0..MaxPages } }

InitPdf ==
    /\ pdf_content = <<>>
    /\ quiz_type = "multiple_choice"
    /\ num_questions = MinQuestions
    /\ QuizIdle
    /\ calls = <<>>
    /\ pdf_cache = EmptyCache
    /\ chat_history = <<>>
    /\ ChatIdle
    /\ uploaded_file \in PdfFiles
    /\ PdfIdle
    /\ StatsIdle
    /\ SessionIdle

\* pdf_processor.extract_text(uploaded_file)
ExtractText ==
    /\ extract_call = "idle"
    /\ LET r == extract_text(uploaded_file)
       IN  /\ extract_call' = IF r.raised THEN "raised" ELSE "returned"
           /\ extract_error' = r.error
           /\ extracted' = r.text
    /\ UNCHANGED << quiz_vars, chat_vars, calls, uploaded_file, stats_vars,
                    session_vars >>

NextPdf == ExtractText

SpecPdf == InitPdf /\ [][NextPdf]_vars

----------------------------------------------------------------------------
(* The quiz statistics computed once on each quiz and answer record. *)

\* questions a quiz may hold: what validation keeps and what the fallback builds
StatsItems ==
    { ValidateOne(JsonObject(tok)).item : tok \in {"{mc-ok}", "{mc-bad}", "{sa}", "{tf}"} }

StatsQuizzes == UNION { [1..n -> StatsItems] : n \in 0..MaxQuizLen }

Choices == { "A", "B" }

\* answers keyed by position; a key may lie outside the quiz
StatsAnswers == UNION { [K -> Choices] : K \in SUBSET (0..MaxQuizLen) }

InitStats ==
    /\ pdf_content = <<>>
    /\ quiz_type = "multiple_choice"
    /\ num_questions = MinQuestions
    /\ QuizIdle
    /\ calls = <<>>
    /\ pdf_cache = EmptyCache
    /\ chat_history = <<>>
    /\ ChatIdle
    /\ uploaded_file = NoFile
    /\ PdfIdle
    /\ stats_questions \in StatsQuizzes
    /\ stats_answers \in StatsAnswers
    /\ quiz_stats = NoStats
    /\ SessionIdle

\* quiz_generator.get_quiz_statistics(questions, answers)
GetQuizStatistics ==
    /\ quiz_stats = NoStats
    /\ quiz_stats' = get_quiz_statistics(stats_questions, stats_answers)
    /\ UNCHANGED << quiz_vars, chat_vars, calls, uploaded_file, pdf_vars,
                    stats_questions, stats_answers, session_vars >>

NextStats == GetQuizStatistics

SpecStats == InitStats /\ [][NextStats]_vars

----------------------------------------------------------------------------
(* The application (app.py): the handlers of main() as operators. *)

\* the upload block of the sidebar: a file in the uploader is extracted when
\* no document is processed or its name differs from the processed one
sidebar_upload(file, text, processed, name) ==
    IF file # NoFile /\ (~processed \/ name # file.name)
    THEN LET r == extract_text(file)
         IN  IF r.raised
             THEN [pdf_text |-> text, pdf_processed |-> FALSE,
                   uploaded_file_name |-> name, error |-> r.error]
             ELSE [pdf_text |-> r.text, pdf_processed |-> TRUE,
                   uploaded_file_name |-> file.name, error |-> ""]
    ELSE [pdf_text |-> text, pdf_processed |-> processed,
          uploaded_file_name |-> name, error |-> ""]

UserTurn(question) == [role |-> "user", content |-> question]

AssistantTurn(response) == [role |-> "assistant", content |-> response]

\* mutant: the user's turn is taken back when the call fails
chat_interface_send_rollback(cache, history, question, content, summary, reply) ==
    IF strip(question) = <<>>
    THEN [chat_history |-> history, called |-> FALSE, raised |-> FALSE,
          error |-> "", answer |-> NoAnswer, cache |-> cache,
          calls |-> <<>>, rerun |-> FALSE]
    ELSE LET asked == Append(history, UserTurn(question))
             r == get_response(cache, asked, question, content, summary, reply)
         IN  IF r.raised
             THEN [chat_history |-> history, called |-> TRUE, raised |-> TRUE,
                   error |-> r.error, answer |-> NoAnswer, cache |-> r.cache,
                   calls |-> r.calls, rerun |-> FALSE]
             ELSE [chat_history |-> Append(asked, AssistantTurn(r.answer)),
                   called |-> TRUE, raised |-> FALSE, error |-> "",
                   answer |-> r.answer, cache |-> r.cache, calls |-> r.calls,
                   rerun |-> TRUE]

\* mutant: the call cuts the history down to the turns it sends
chat_interface_send_trimmed(cache, history, question, content, summary, reply) ==
    IF strip(question) = <<>>
    THEN [chat_history |-> history, called |-> FALSE, raised |-> FALSE,
          error |-> "", answer |-> NoAnswer, cache |-> cache,
          calls |-> <<>>, rerun |-> FALSE]
    ELSE LET asked == Append(history, UserTurn(question))
             r == get_response(cache, asked, question, content, summary, reply)
         IN  IF r.raised
             THEN [chat_history |-> recent_history(asked), called |-> TRUE,
                   raised |-> TRUE, error |-> r.error, answer |-> NoAnswer,
                   cache |-> r.cache, calls |-> r.calls, rerun |-> FALSE]
             ELSE [chat_history |->
                       Append(recent_history(asked), AssistantTurn(r.answer)),
                   called |-> TRUE, raised |-> FALSE, error |-> "",
                   answer |-> r.answer, cache |-> r.cache, calls |-> r.calls,
                   rerun |-> TRUE]

\* the Send button of chat_interface, on the ChatManager of this run; rerun
\* tells whether st.rerun() was reached
chat_interface_send(cache, history, question, content, summary, reply) ==
    IF strip(question) = <<>>
    THEN [chat_history |-> history, called |-> FALSE, raised |-> FALSE,
          error |-> "", answer |-> NoAnswer, cache |-> cache,
          calls |-> <<>>, rerun |-> FALSE]
    ELSE LET asked == Append(history, UserTurn(question))
             r == get_response(cache, asked, question, content, summary, reply)
         IN  IF r.raised
             THEN [chat_history |-> asked, called |-> TRUE, raised |-> TRUE,
                   error |-> r.error, answer |-> NoAnswer, cache |-> r.cache,
                   calls |-> r.calls, rerun |-> FALSE]
             ELSE [chat_history |-> Append(asked, AssistantTurn(r.answer)),
                   called |-> TRUE, raised |-> FALSE, error |-> "",
                   answer |-> r.answer, cache |-> r.cache, calls |-> r.calls,
                   rerun |-> TRUE]

\* how the run of a Send ends once the question was found blank or get_response
\* was called: not stopped it ends in st.rerun() after a reply and at the end of
\* main() otherwise; it can be stopped at the st.error of the except branch,
\* before the message is on the page, and at any st call behind the handler's
\* last write (the exit of st.spinner, the buttons and tabs that follow);
\* shown is the message st.error has put on the page
SendEndings(r) ==
    IF ~r.called
    THEN { [run |-> "ended", shown |-> ""], [run |-> "stopped", shown |-> ""] }
    ELSE IF r.raised
    THEN { [run |-> "ended", shown |-> r.error],
           [run |-> "stopped", shown |-> ""],
           [run |-> "stopped", shown |-> r.error] }
    ELSE { [run |-> "rerun", shown |-> ""], [run |-> "stopped", shown |-> ""] }

\* the Send button when the run is stopped on entering st.spinner, after the
\* user's turn was appended and before get_response is called
chat_interface_send_stopped(history, question) ==
    Append(history, UserTurn(question))

\* the four quiz keys of the session
QuizState(questions, index, answers, score) ==
    [quiz_questions |-> questions, current_quiz_index |-> index,
     quiz_answers |-> answers, quiz_score |-> score]

\* mutant: the multiple-choice half is stored when the other half fails
quiz_interface_generate_partial(quiz, content, count, mcq_outcome, short_outcome) ==
    LET num_mcq == count \div 2
        num_short == count - num_mcq
        mcq == generate_quiz(content, "multiple_choice", num_mcq, mcq_outcome)
        short == generate_quiz(content, "short_answer", num_short, short_outcome)
    IN  IF mcq.raised
        THEN [quiz |-> quiz, error |-> mcq.error, calls |-> mcq.calls]
        ELSE IF short.raised
        THEN [quiz |-> QuizState(mcq.value, 0, <<>>, 0), error |-> short.error,
              calls |-> mcq.calls \o short.calls]
        ELSE [quiz |-> QuizState(mcq.value \o short.value, 0, <<>>, 0),
              error |-> "", calls |-> mcq.calls \o short.calls]

\* mutant: only the multiple-choice half is asked for
quiz_interface_generate_one_call(quiz, content, count, mcq_outcome, short_outcome) ==
    LET mcq == generate_quiz(content, "multiple_choice", count \div 2, mcq_outcome)
    IN  IF mcq.raised
        THEN [quiz |-> quiz, error |-> mcq.error, calls |-> mcq.calls]
        ELSE [quiz |-> QuizState(mcq.value, 0, <<>>, 0),
              error |-> "", calls |-> mcq.calls]

\* the Generate Quiz button of quiz_interface
quiz_interface_generate(quiz, content, count, mcq_outcome, short_outcome) ==
    LET num_mcq == count \div 2
        num_short == count - num_mcq
        mcq == generate_quiz(content, "multiple_choice", num_mcq, mcq_outcome)
        short == generate_quiz(content, "short_answer", num_short, short_outcome)
    IN  IF mcq.raised
        THEN [quiz |-> quiz, error |-> mcq.error, calls |-> mcq.calls]
        ELSE IF short.raised
        THEN [quiz |-> quiz, error |-> short.error,
              calls |-> mcq.calls \o short.calls]
        ELSE [quiz |-> QuizState(mcq.value \o short.value, 0, <<>>, 0),
              error |-> "", calls |-> mcq.calls \o short.calls]

\* how the run of a Generate Quiz ends once generate_quiz was called: not
\* stopped it ends at the end of main(); it can be stopped at the st.error of
\* the except branch, before the message is on the page, and at any st call
\* behind the handler's last write (st.success, the exit of st.spinner, the
\* quiz and the tab that follow); shown is the message st.error has put on the
\* page
GenerateEndings(r) ==
    IF r.error # ""
    THEN { [run |-> "ended", shown |-> r.error],
           [run |-> "stopped", shown |-> ""],
           [run |-> "stopped", shown |-> r.error] }
    ELSE { [run |-> "ended", shown |-> ""], [run |-> "stopped", shown |-> ""] }

\* answers[index] = answer
AnswerPut(answers, index, answer) ==
    [k \in DOMAIN answers \cup {index} |-> IF k = index THEN answer ELSE answers[k]]

\* the Submit Answer button of display_quiz on the current question
display_quiz_submit(quiz, answer) ==
    LET index == quiz.current_quiz_index
        question == quiz.quiz_questions[index + 1]
        answers == AnswerPut(quiz.quiz_answers, index, answer)
    IN  IF question.type = "multiple_choice"
        THEN [quiz |-> QuizState(quiz.quiz_questions, index + 1, answers,
                                 IF answer = question.correct_answer
                                 THEN quiz.quiz_score + 1 ELSE quiz.quiz_score),
              error |-> "", rerun |-> TRUE]
        ELSE IF "expected_answer" \notin DOMAIN question
        THEN [quiz |-> QuizState(quiz.quiz_questions, index, answers,
                                 quiz.quiz_score),
              error |-> "KeyError: 'expected_answer'", rerun |-> FALSE]
        ELSE [quiz |-> QuizState(quiz.quiz_questions, index + 1, answers,
                                 quiz.quiz_score),
              error |-> "", rerun |-> TRUE]

\* the st calls of the Submit Answer handler that lie between two of its
\* writes: "feedback" is st.success or st.error after the answer was stored,
\* "explanation" the st.info after the score, "expected" the st.info of the
\* other branch (reached only when question['expected_answer'] exists)
SubmitYields(question) ==
    IF question.type = "multiple_choice"
    THEN {"feedback"} \cup
         (IF "explanation" \in DOMAIN question THEN {"explanation"} ELSE {})
    ELSE IF "expected_answer" \in DOMAIN question THEN {"expected"} ELSE {}

\* the Submit Answer button when the run is stopped at the st call named by at:
\* the answer is stored, the score is added only before "explanation", and
\* the index is not advanced
display_quiz_submit_stopped(quiz, answer, at) ==
    LET index == quiz.current_quiz_index
        question == quiz.quiz_questions[index + 1]
        answers == AnswerPut(quiz.quiz_answers, index, answer)
    IN  QuizState(quiz.quiz_questions, index, answers,
                  IF at = "explanation" /\ answer = question.correct_answer
                  THEN quiz.quiz_score + 1 ELSE quiz.quiz_score)

\* the Retake Quiz button of display_quiz
display_quiz_retake(quiz) == QuizState(quiz.quiz_questions, 0, <<>>, 0)

----------------------------------------------------------------------------
(* Inputs of the application. *)

AppFiles ==
    { [name |-> "f.pdf", readable |-> TRUE, pages |-> << <<" ", "a">> >>],
      [name |-> "h.pdf", readable |-> TRUE, pages |-> << <<"\n">> >>] }

\* what the user may type after the turns so far: nothing but a blank, or a
\* question not asked before
AppQuestions(history) == { <<" ">>, <<"q", TurnDigits[Len(history) + 1]>> }

AppSummaryOutcomes == { GatewayFailure, [ok |-> TRUE, text |-> <<"k">>] }

\* the model's reply to the question that becomes turn n of the history
AppAnswerOutcomes(history) ==
    { GatewayFailure,
      [ok |-> TRUE, text |-> <<" ", "a", TurnDigits[Len(history) + 2]>>] }

SliderValues == { MinSlider, MaxSlider }

McqOutcomes ==
    { GatewayFailure,
      [ok |-> TRUE, text |-> <<"[", "{mc-ok}", "{tf}", "]">>],
      [ok |-> TRUE, text |-> <<"[", NumberToken, "]">>] }

ShortOutcomes ==
    { GatewayFailure, [ok |-> TRUE, text |-> <<"[", "{sa}", "]">>] }

TextAnswers == { "t", "u" }

\* what the answer widget of a question may hold
AnswerInputs(question) ==
    IF question.type = "multiple_choice"
    THEN { getitem(question.options, k) : k \in 0..(len(question.options) - 1) }
    ELSE TextAnswers

----------------------------------------------------------------------------
(* One browser session: every action is one run of main().                 *)

InitApp ==
    /\ pdf_content = <<>>
    /\ quiz_type = "multiple_choice"
    /\ num_questions = MinQuestions
    /\ QuizIdle
    /\ calls = <<>>
    /\ pdf_cache = EmptyCache
    /\ chat_history = <<>>
    /\ ChatIdle
    /\ uploaded_file = NoFile
    /\ PdfIdle
    /\ StatsIdle
    /\ SessionIdle

\* the document keys as the run finds them
SessionDocument ==
    [pdf_text |-> pdf_text, pdf_processed |-> pdf_processed,
     uploaded_file_name |-> uploaded_file_name, error |-> ""]

\* the document keys after the sidebar of this run
Sidebar == sidebar_upload(uploaded_file, pdf_text, pdf_processed, uploaded_file_name)

\* the tabs are shown
TabsShown == Sidebar.pdf_text # <<>>

SessionQuiz ==
    QuizState(session_quiz_questions, current_quiz_index, quiz_answers, quiz_score)

SetDocument(d) ==
    /\ pdf_text' = d.pdf_text
    /\ pdf_processed' = d.pdf_processed
    /\ uploaded_file_name' = d.uploaded_file_name
    /\ sidebar_error' = d.error

SetQuiz(quiz) ==
    /\ session_quiz_questions' = quiz.quiz_questions
    /\ current_quiz_index' = quiz.current_quiz_index
    /\ quiz_answers' = quiz.quiz_answers
    /\ quiz_score' = quiz.quiz_score

\* no ChatManager method is called by this run; the run builds a new one
NoChatCall ==
    /\ pdf_cache' = EmptyCache
    /\ last_op' = "none"
    /\ user_question' = <<>>
    /\ chat_document' = <<>>
    /\ chat_call' = "idle"
    /\ chat_error' = ""
    /\ chat_answer' = NoAnswer

engine_vars == << pdf_content, quiz_type, num_questions, quiz_outcome, quiz_call,
                  quiz_error, quiz_questions, pdf_vars, stats_vars >>

\* a run of main() with no button pressed, to its end: the run st.rerun()
\* asked for, or the run after a change of a widget that is no button
Run ==
    /\ SetDocument(Sidebar)
    /\ app_action' = "run"
    /\ app_run' = "ended"
    /\ app_error' = ""
    /\ calls' = <<>>
    /\ NoChatCall
    /\ UNCHANGED << uploaded_file, chat_history, session_quiz_questions,
                    current_quiz_index, quiz_answers, quiz_score, engine_vars >>

\* a run of main() stopped before any handler wrote, with the file the uploader
\* holds by then: before the sidebar's writes (at st.markdown, at the spinner
\* of the sidebar or at its st.error) or after them
RunStopped ==
    \E f \in AppFiles \cup {NoFile} :
        /\ uploaded_file' = f
        /\ \E d \in { SessionDocument,
                      sidebar_upload(f, pdf_text, pdf_processed, uploaded_file_name) } :
              SetDocument(d)
        /\ app_action' = IF f # uploaded_file THEN "upload" ELSE "run"
        /\ app_run' = "stopped"
        /\ app_error' = ""
        /\ calls' = <<>>
        /\ NoChatCall
        /\ UNCHANGED << chat_history, session_quiz_questions, current_quiz_index,
                        quiz_answers, quiz_score, engine_vars >>

\* the user puts a file into the uploader, or removes the one in it
Upload ==
    \E f \in AppFiles \cup {NoFile} :
        /\ f # uploaded_file
        /\ uploaded_file' = f
        /\ LET d == sidebar_upload(f, pdf_text, pdf_processed, uploaded_file_name)
           IN  SetDocument(d)
        /\ app_action' = "upload"
        /\ app_run' = "ended"
        /\ app_error' = ""
        /\ calls' = <<>>
        /\ NoChatCall
        /\ UNCHANGED << chat_history, session_quiz_questions, current_quiz_index,
                        quiz_answers, quiz_score, engine_vars >>

\* the Send button, the run not stopped on entering st.spinner: the question
\* is blank, or get_response is called; pdf_cache is the cache of the
\* ChatManager of this run
Send ==
    /\ TabsShown
    /\ Len(chat_history) < MaxTurns
    /\ session_quiz_questions = <<>> \/ Len(chat_history) < MaxQuizTurns
    /\ \E q \in AppQuestions(chat_history), summary \in AppSummaryOutcomes,
          reply \in AppAnswerOutcomes(chat_history) :
          LET r == chat_interface_send(EmptyCache, chat_history, q,
                                       Sidebar.pdf_text, summary, reply)
          IN  /\ chat_history' = r.chat_history
              /\ pdf_cache' = r.cache
              /\ last_op' = IF r.called THEN "get_response" ELSE "none"
              /\ user_question' = q
              /\ chat_document' = IF r.called THEN Sidebar.pdf_text ELSE <<>>
              /\ chat_call' = IF ~r.called THEN "idle"
                              ELSE IF r.raised THEN "raised" ELSE "returned"
              /\ chat_error' = r.error
              /\ chat_answer' = r.answer
              /\ calls' = r.calls
              /\ \E e \in SendEndings(r) :
                    /\ app_run' = e.run
                    /\ app_error' = e.shown
    /\ SetDocument(Sidebar)
    /\ app_action' = "send"
    /\ UNCHANGED << uploaded_file, session_quiz_questions, current_quiz_index,
                    quiz_answers, quiz_score, engine_vars >>

\* the Send button with a question, the run stopped on entering st.spinner
SendStopped ==
    /\ TabsShown
    /\ Len(chat_history) < MaxTurns
    /\ session_quiz_questions = <<>> \/ Len(chat_history) < MaxQuizTurns
    /\ \E q \in AppQuestions(chat_history) :
          /\ strip(q) # <<>>
          /\ chat_history' = chat_interface_send_stopped(chat_history, q)
          /\ user_question' = q
    /\ pdf_cache' = EmptyCache
    /\ last_op' = "none"
    /\ chat_document' = <<>>
    /\ chat_call' = "idle"
    /\ chat_error' = ""
    /\ chat_answer' = NoAnswer
    /\ calls' = <<>>
    /\ SetDocument(Sidebar)
    /\ app_action' = "send"
    /\ app_run' = "stopped"
    /\ app_error' = ""
    /\ UNCHANGED << uploaded_file, session_quiz_questions, current_quiz_index,
                    quiz_answers, quiz_score, engine_vars >>

\* the Clear Chat button
ClearChat ==
    /\ TabsShown
    /\ chat_history' = <<>>
    /\ SetDocument(Sidebar)
    /\ app_action' = "clear_chat"
    /\ app_run' = "rerun"
    /\ app_error' = ""
    /\ calls' = <<>>
    /\ NoChatCall
    /\ UNCHANGED << uploaded_file, session_quiz_questions, current_quiz_index,
                    quiz_answers, quiz_score, engine_vars >>

\* the Generate Quiz button, the run not stopped on entering st.spinner; the
\* four writes have no st call between them
GenerateQuizzes ==
    /\ TabsShown
    /\ Len(chat_history) <= MaxQuizTurns
    /\ \E n \in SliderValues, mcq_outcome \in McqOutcomes,
          short_outcome \in ShortOutcomes :
          LET r == quiz_interface_generate(SessionQuiz, Sidebar.pdf_text, n,
                                           mcq_outcome, short_outcome)
          IN  /\ SetQuiz(r.quiz)
              /\ calls' = r.calls
              /\ \E e \in GenerateEndings(r) :
                    /\ app_run' = e.run
                    /\ app_error' = e.shown
    /\ SetDocument(Sidebar)
    /\ app_action' = "generate_quiz"
    /\ NoChatCall
    /\ UNCHANGED << uploaded_file, chat_history, engine_vars >>

\* the Generate Quiz button, the run stopped on entering st.spinner, before
\* the calls
GenerateStopped ==
    /\ TabsShown
    /\ Len(chat_history) <= MaxQuizTurns
    /\ SetDocument(Sidebar)
    /\ app_action' = "generate_quiz"
    /\ app_run' = "stopped"
    /\ app_error' = ""
    /\ calls' = <<>>
    /\ NoChatCall
    /\ UNCHANGED << uploaded_file, chat_history, session_quiz_questions,
                    current_quiz_index, quiz_answers, quiz_score, engine_vars >>

\* the Submit Answer button of the current question, the run not stopped
Submit ==
    /\ TabsShown
    /\ session_quiz_questions # <<>>
    /\ current_quiz_index < Len(session_quiz_questions)
    /\ \E answer \in AnswerInputs(session_quiz_questions[current_quiz_index + 1]) :
          LET r == display_quiz_submit(SessionQuiz, answer)
          IN  /\ r.quiz.quiz_score <= MaxScore
              /\ SetQuiz(r.quiz)
              /\ app_error' = r.error
              /\ app_run' = IF r.rerun THEN "rerun" ELSE "ended"
    /\ SetDocument(Sidebar)
    /\ app_action' = "submit"
    /\ calls' = <<>>
    /\ NoChatCall
    /\ UNCHANGED << uploaded_file, chat_history, engine_vars >>

\* the Submit Answer button of the current question, the run stopped at an st
\* call of the handler
SubmitStopped ==
    /\ TabsShown
    /\ session_quiz_questions # <<>>
    /\ current_quiz_index < Len(session_quiz_questions)
    /\ LET question == session_quiz_questions[current_quiz_index + 1]
       IN  \E answer \in AnswerInputs(question), at \in SubmitYields(question) :
              LET quiz == display_quiz_submit_stopped(SessionQuiz, answer, at)
              IN  /\ quiz.quiz_score <= MaxScore
                  /\ SetQuiz(quiz)
    /\ SetDocument(Sidebar)
    /\ app_action' = "submit"
    /\ app_run' = "stopped"
    /\ app_error' = ""
    /\ calls' = <<>>
    /\ NoChatCall
    /\ UNCHANGED << uploaded_file, chat_history, engine_vars >>

\* the Retake Quiz button of the completed quiz
Retake ==
    /\ TabsShown
    /\ session_quiz_questions # <<>>
    /\ current_quiz_index >= Len(session_quiz_questions)
    /\ SetQuiz(display_quiz_retake(SessionQuiz))
    /\ SetDocument(Sidebar)
    /\ app_action' = "retake"
    /\ app_run' = "rerun"
    /\ app_error' = ""
    /\ calls' = <<>>
    /\ NoChatCall
    /\ UNCHANGED << uploaded_file, chat_history, engine_vars >>

\* the Clear Session button, after the sidebar of its run: every key is
\* deleted and set anew; the file stays in the uploader for the next run
ClearSession ==
    /\ SetDocument([pdf_text |-> <<>>, pdf_processed |-> FALSE,
                    uploaded_file_name |-> None, error |-> Sidebar.error])
    /\ chat_history' = <<>>
    /\ SetQuiz(QuizState(<<>>, 0, <<>>, 0))
    /\ app_action' = "clear_session"
    /\ app_run' = "rerun"
    /\ app_error' = ""
    /\ calls' = <<>>
    /\ NoChatCall
    /\ UNCHANGED << uploaded_file, engine_vars >>

NextApp ==
    \/ Run
    \/ RunStopped
    \/ Upload
    \/ Send
    \/ SendStopped
    \/ ClearChat
    \/ GenerateQuizzes
    \/ GenerateStopped
    \/ Submit
    \/ SubmitStopped
    \/ Retake
    \/ ClearSession

SpecApp == InitApp /\ [][NextApp]_vars

----------------------------------------------------------------------------
(* Properties of the quiz engine, under SpecQuiz. *)

ResponseText == quiz_outcome.text

\* the response holds a bracketed span that decodes as JSON
Decoded ==
    /\ quiz_outcome.ok
    /\ re_search(ResponseText).found
    /\ json_loads(re_search(ResponseText).span).ok

DecodedEntries == json_loads(re_search(ResponseText).span).value

\* a response came back and no JSON was decoded from it
FallbackTaken == quiz_call = "returned" /\ quiz_outcome.ok /\ ~Decoded

StemCount == Len(question_lines(ResponseText))

Blank(s) == \A k \in 1..Len(s) : s[k] \in Whitespace

\* C1 as stated: every multiple_choice item of a quiz that generate_quiz
\* returned, on the decoded path and on both fallback paths, has its
\* correct_answer equal to one of its own options. A decoded item whose options
\* is the JSON string "AB" and whose correct_answer is "" passes the 'not in'
\* test of validation and is returned as it came.
C1_CorrectAnswerInOptions ==
    quiz_call = "returned" =>
        \A i \in 1..Len(quiz_questions) :
            LET q == quiz_questions[i]
            IN  ("type" \in DOMAIN q /\ q.type = "multiple_choice") =>
                    /\ "options" \in DOMAIN q
                    /\ "correct_answer" \in DOMAIN q
                    /\ \E k \in 0..(len(q.options) - 1) :
                          getitem(q.options, k) = q.correct_answer

\* C2: for a non-blank document and 1 <= count <= 10, a generate_quiz call that
\* returns gives a list no longer than count, whichever path produced it.
C2_AtMostCount ==
    quiz_call = "returned" => Len(quiz_questions) <= num_questions

\* the model sent more well-formed entries than asked for and count were returned
C2_Witness ==
    /\ quiz_call = "returned"
    /\ Decoded
    /\ Len(DecodedEntries) > num_questions
    /\ Len(quiz_questions) = num_questions

IsQuizQuestion(q) ==
    /\ "question" \in DOMAIN q
    /\ "type" \in DOMAIN q
    /\ \/ /\ q.type = "multiple_choice"
          /\ "options" \in DOMAIN q
          /\ "correct_answer" \in DOMAIN q
          /\ len(q.options) >= 2
       \/ /\ q.type = "short_answer"
          /\ "expected_answer" \in DOMAIN q

\* C3: every item generate_quiz returns is a multiple_choice question (question,
\* at least 2 options, correct_answer) or a short_answer question (question,
\* expected_answer); no entry of another type reaches the returned quiz.
C3_OnlyTwoVariants ==
    quiz_call = "returned" =>
        \A i \in 1..Len(quiz_questions) : IsQuizQuestion(quiz_questions[i])

\* the entries _validate_questions looks at
Examined == SubSeq(DecodedEntries, 1, Min(num_questions, Len(DecodedEntries)))

WellFormed(e) ==
    /\ {"question", "type"} \subseteq DOMAIN e
    /\ e.type = "multiple_choice" =>
          /\ {"options", "correct_answer"} \subseteq DOMAIN e
          /\ len(e.options) >= 2

\* r is the entry e as a validated quiz keeps it
KeptAs(e, r) ==
    /\ DOMAIN r = DOMAIN e \cup
                    (IF e.type = "short_answer" THEN {"expected_answer"} ELSE {})
    /\ \A f \in DOMAIN e \ {"correct_answer"} : r[f] = e[f]
    /\ "correct_answer" \in DOMAIN e =>
          r.correct_answer =
              IF e.type = "multiple_choice"
                 /\ ~contains(e.options, e.correct_answer)
              THEN getitem(e.options, 0)
              ELSE e.correct_answer
    /\ (e.type = "short_answer" /\ "expected_answer" \notin DOMAIN e) =>
          r.expected_answer = "Answer not provided"

C5_FallbackCount ==
    FallbackTaken =>
        IF StemCount >= 1
        THEN /\ Len(quiz_questions) = Min3(num_questions, StemCount, 3)
             /\ \A i \in 1..Len(quiz_questions) :
                   quiz_questions[i].question = question_lines(ResponseText)[i]
        ELSE /\ Len(quiz_questions) = 1
             /\ quiz_questions[1].type = "short_answer"
             /\ quiz_questions[1] = GenericQuestion

\* a bracketed span that is no JSON, four lines with '?', and count >= 4
C5_Witness ==
    /\ FallbackTaken
    /\ re_search(ResponseText).found
    /\ StemCount >= 4
    /\ num_questions >= 4
    /\ Len(quiz_questions) = 3

MatchesKind(q, kind) ==
    /\ kind = "multiple_choice" =>
          /\ q.type = "multiple_choice"
          /\ q.options.json = "array"
          /\ len(q.options) = 4
          /\ q.correct_answer = getitem(q.options, 0)
    /\ kind = "short_answer" => q.type = "short_answer"

\* C6 as stated: every fallback question matches the requested kind, whatever
\* the number of '?' lines.
C6_FallbackMatchesKind ==
    FallbackTaken =>
        \A i \in 1..Len(quiz_questions) : MatchesKind(quiz_questions[i], quiz_type)

\* C6 amended: when at least one response line holds '?', every fallback
\* question matches the requested kind (multiple_choice: 4 fixed options, the
\* first correct); when none does, the one fallback question is short_answer
\* whatever the kind.
C6_FallbackMatchesKindIfStems ==
    FallbackTaken =>
        /\ StemCount >= 1 =>
              \A i \in 1..Len(quiz_questions) :
                  MatchesKind(quiz_questions[i], quiz_type)
        /\ StemCount = 0 =>
              \A i \in 1..Len(quiz_questions) :
                  quiz_questions[i].type = "short_answer"

\* two fallback multiple_choice questions built from two '?' lines
C6_Witness ==
    /\ FallbackTaken
    /\ quiz_type = "multiple_choice"
    /\ StemCount = 2
    /\ Len(quiz_questions) = 2

\* C7: a blank document or a count outside 1..10 makes generate_quiz fail
\* without a gateway call; a non-blank document with 1 <= count <= 10 passes
\* the input check, so the gateway is called.
C7_InputCheck ==
    quiz_call # "idle" =>
        IF Blank(pdf_content) \/ num_questions < 1 \/ num_questions > 10
        THEN quiz_call = "raised" /\ calls = <<>>
        ELSE /\ Len(calls) = 1
             /\ quiz_error \notin { "PDF content is empty",
                                    "Number of questions must be between 1 and 10" }

\* a whitespace-only document with a valid count was rejected
C7_Witness ==
    /\ quiz_call = "raised"
    /\ pdf_content # <<>>
    /\ Blank(pdf_content)
    /\ num_questions \in 1..10
    /\ calls = <<>>

----------------------------------------------------------------------------
(* Properties of the conversation engine, under SpecChat. *)

SummaryFailed ==
    \E i \in 1..Len(calls) : calls[i].purpose = "key_points" /\ ~calls[i].ok

AnswerFailed ==
    \E i \in 1..Len(calls) : calls[i].purpose = "answer" /\ ~calls[i].ok

C9_BlankQuestion ==
    [][ (last_op' = "get_response" /\ Blank(user_question')) =>
            /\ chat_call' = "raised"
            /\ calls' = <<>>
            /\ pdf_cache' = pdf_cache ]_vars

\* a whitespace-only question was rejected while the cache held an entry
C9_Witness ==
    /\ last_op = "get_response"
    /\ user_question # <<>>
    /\ Blank(user_question)
    /\ chat_call = "raised"
    /\ pdf_cache # EmptyCache

KeyPointsCalls(cs) == { i \in 1..Len(cs) : cs[i].purpose = "key_points" }

\* C10: on one ChatManager, a key-points request for a document issues a
\* summarization call exactly when the document's hash is not in the cache: a
\* hit issues none, leaves the cache alone and uses the stored value; a miss
\* issues exactly one and stores its result; clear_cache empties the cache, so
\* the next request misses.
C10_CallIffMiss ==
    [][ /\ (last_op' = "get_response" /\ ~Blank(user_question')
               /\ chat_document' # <<>>) =>
              IF md5(chat_document') \in DOMAIN pdf_cache
              THEN /\ KeyPointsCalls(calls') = {}
                   /\ pdf_cache' = pdf_cache
                   /\ calls'[1].context[1].text =
                          Prefix(pdf_cache[md5(chat_document')].key_points, 2000)
              ELSE /\ Cardinality(KeyPointsCalls(calls')) = 1
                   /\ calls'[1].ok =>
                          /\ md5(chat_document') \in DOMAIN pdf_cache'
                          /\ pdf_cache'[md5(chat_document')].key_points = calls'[1].text
                          /\ calls'[2].context[1].text = Prefix(calls'[1].text, 2000)
        /\ last_op' = "clear_cache" => pdf_cache' = EmptyCache ]_vars

\* a request answered from the cache: no summarization call was issued
C10_Witness ==
    /\ last_op = "get_response"
    /\ chat_call = "returned"
    /\ chat_document # <<>>
    /\ KeyPointsCalls(calls) = {}
    /\ md5(chat_document) \in DOMAIN pdf_cache

----------------------------------------------------------------------------
(* Properties of the text extractor, under SpecPdf. *)

LeadingOrTrailingWhitespace(line) ==
    line # <<>> /\ (line[1] \in Whitespace \/ line[Len(line)] \in Whitespace)

NewlineRun(s, n) ==
    \E k \in 1..(Len(s) - n + 1) : \A d \in 0..(n - 1) : s[k + d] = "\n"

\* no page holds a character that is not whitespace
NoPageText(file) ==
    \A p \in 1..Len(file.pages) :
        \A k \in 1..Len(file.pages[p]) : file.pages[p][k] \in Whitespace

\* C13: when extract_text returns, the text is not empty, none of its lines
\* starts or ends with whitespace and it holds no run of three newlines; when
\* the pages hold no text other than whitespace, extract_text raises.
C13_CleanExtraction ==
    /\ extract_call = "returned" =>
          /\ extracted # <<>>
          /\ \A k \in 1..Len(split_lines(extracted)) :
                 ~LeadingOrTrailingWhitespace(split_lines(extracted)[k])
          /\ ~NewlineRun(extracted, 3)
    /\ (extract_call # "idle" /\ NoPageText(uploaded_file)) =>
          /\ extract_call = "raised"
          /\ extract_error # ""

\* two pages whose raw text has padded lines and a blank-only page were cleaned
C13_Witness ==
    /\ extract_call = "returned"
    /\ Len(uploaded_file.pages) = 2
    /\ uploaded_file.pages[1] = <<" ", "a">>
    /\ uploaded_file.pages[2] = <<"\n">>
    /\ extracted = <<"a">>

----------------------------------------------------------------------------
(* Properties of the quiz statistics, under SpecStats. *)

McPositions == { i \in 0..(Len(stats_questions) - 1) :
                   stats_questions[i + 1].type = "multiple_choice" }

CorrectPositions == { i \in McPositions :
                        /\ i \in DOMAIN stats_answers
                        /\ stats_answers[i] = stats_questions[i + 1].correct_answer }

\* the percentage p stands for equals n / d * 100
PercentageIs(p, n, d) == p.num * p.times * d = n * 100 * p.den

\* C14: the statistics are the number of questions, the number of answers, the
\* number of multiple_choice questions, the number of those answered with
\* their correct_answer, accuracy = correct / mc * 100 (0 without mc) and
\* completion = answered / total * 100 (0 without questions); one
\* multiple_choice question answered correctly gives accuracy 100.
C14_Statistics ==
    quiz_stats # NoStats =>
       LET total == Len(stats_questions)
           answered == Cardinality(DOMAIN stats_answers)
           mc == Cardinality(McPositions)
           correct == Cardinality(CorrectPositions)
       IN  /\ quiz_stats.total_questions = total
           /\ quiz_stats.answered_questions = answered
           /\ quiz_stats.multiple_choice_questions = mc
           /\ quiz_stats.correct_answers = correct
           /\ IF mc > 0
              THEN PercentageIs(quiz_stats.accuracy_percentage, correct, mc)
              ELSE PercentageIs(quiz_stats.accuracy_percentage, 0, 1)
           /\ IF total > 0
              THEN PercentageIs(quiz_stats.completion_percentage, answered, total)
              ELSE PercentageIs(quiz_stats.completion_percentage, 0, 1)
           /\ (mc = 1 /\ correct = 1) =>
                 PercentageIs(quiz_stats.accuracy_percentage, 100, 100)

\* a multiple_choice question answered correctly next to a short_answer one
C14_Witness ==
    /\ quiz_stats # NoStats
    /\ Len(stats_questions) = 2
    /\ stats_questions[1].type = "multiple_choice"
    /\ stats_questions[2].type = "short_answer"
    /\ DOMAIN stats_answers = {0}
    /\ stats_answers[0] = stats_questions[1].correct_answer
    /\ quiz_stats.correct_answers = 1
    /\ quiz_stats.accuracy_percentage = [num |-> 1, den |-> 1, times |-> 100]
    /\ quiz_stats.completion_percentage = [num |-> 1, den |-> 2, times |-> 100]

----------------------------------------------------------------------------
(* Properties of the application, under SpecApp. *)

\* the last run was a Send that called get_response with a question that is
\* not blank
Asked == app_action = "send" /\ last_op = "get_response"

Summarized(cs) ==
    \E k \in 1..Len(cs) : cs[k].purpose = "key_points" /\ cs[k].ok

\* C11 as stated: when a Send has summarized the document successfully, the
\* next Send on the same document issues no summarization call, only the
\* answer call.
C11_SummarizationNotRepeated ==
    [][ ( /\ Asked
          /\ Summarized(calls)
          /\ Asked'
          /\ pdf_text' = pdf_text )
        => ( /\ KeyPointsCalls(calls') = {}
             /\ Len(calls') = 1
             /\ calls'[1].purpose = "answer" ) ]_vars

\* a Generate Quiz run that reached its generation calls
Generated == app_action = "generate_quiz" /\ calls # <<>>

\* C12 as stated: asking a question or generating a quiz issues exactly one
\* gateway call, submitting an answer or retaking the quiz issues none.
C12_OneCallPerAction ==
    /\ (Asked \/ Generated) => Len(calls) = 1
    /\ app_action \in {"submit", "retake"} => calls = <<>>

\* C12 amended: a Send that reaches get_response issues the answer call last,
\* with the summarization call before it unless the ChatManager of the run
\* holds the key points of the document, and a Send that does not
\* (a blank question, a run stopped before the call) issues none; a Generate
\* Quiz that reaches its calls issues the multiple_choice call and, unless that
\* half failed, the short_answer call after it, both whenever the run ended
\* without an error, and only a run stopped before the calls issues none;
\* Submit and Retake issue none.
C12_CallsPerAction ==
    /\ Asked =>
          /\ Len(calls) \in {1, 2}
          /\ calls[Len(calls)].purpose = "answer"
          /\ Len(calls) = 2 => calls[1].purpose = "key_points"
          /\ Len(calls) = 1 => pdf_cache # EmptyCache
    /\ (app_action = "send" /\ ~Asked) => calls = <<>>
    /\ (app_action = "send" /\ ~Blank(user_question) /\ app_run # "stopped") => Asked
    /\ app_action = "generate_quiz" =>
          /\ Len(calls) \in {0, 1, 2}
          /\ calls = <<>> => app_run = "stopped"
          /\ \A k \in 1..Len(calls) : calls[k].op = "generate_quiz_content"
          /\ Len(calls) >= 1 => calls[1].quiz_type = "multiple_choice"
          /\ Len(calls) = 2 => calls[2].quiz_type = "short_answer"
          /\ (app_run = "ended" /\ app_error = "") => Len(calls) = 2
    /\ app_action \in {"submit", "retake"} => calls = <<>>

\* a quiz was generated and stored after a question had been answered
C12_Witness ==
    /\ app_action = "generate_quiz"
    /\ app_error = ""
    /\ Len(calls) = 2
    /\ session_quiz_questions # <<>>
    /\ Len(chat_history) = 2

\* C15: a Send changes the history only by the shell's appends: the user turn
\* before get_response and the assistant turn after it returned; get_response
\* itself, returning or raising, leaves the history as it was called with.
C15_HistoryFrame ==
    [][ app_action' = "send" =>
          chat_history' =
              IF Blank(user_question') THEN chat_history
              ELSE IF chat_call' = "returned"
              THEN chat_history \o << [role |-> "user", content |-> user_question'],
                                      [role |-> "assistant", content |-> chat_answer'] >>
              ELSE chat_history \o << [role |-> "user", content |-> user_question'] >>
      ]_vars

\* the fourth question was answered: more turns than the window holds
C15_Witness ==
    /\ app_action = "send"
    /\ chat_call = "returned"
    /\ Len(chat_history) = 8

\* the lines of the conversation section of the context sent with the answer call
ConversationSent ==
    LET context == calls[Len(calls)].context
        parts == { k \in 1..Len(context) : context[k].part = "Recent Conversation" }
    IN  IF parts = {} THEN <<>> ELSE context[CHOOSE k \in parts : TRUE].lines

\* the history get_response was called with
HistoryAtCall ==
    IF chat_call = "returned"
    THEN SubSeq(chat_history, 1, Len(chat_history) - 1)
    ELSE chat_history

RoleLabel(role) == IF role = "user" THEN "User" ELSE "Assistant"

\* C16 as stated: the conversation sent with a question is the six most recent
\* turns of the history in their order (all when there are fewer), none
\* older, and they form user-question/assistant-reply pairs.
C16_LastThreeExchanges ==
    Asked =>
       LET n == Min(HistoryWindow, Len(HistoryAtCall))
           first == Len(HistoryAtCall) - n
       IN  /\ Len(ConversationSent) = n
           /\ \A i \in 1..n :
                 ConversationSent[i] =
                     << RoleLabel(HistoryAtCall[first + i].role),
                        HistoryAtCall[first + i].content >>
           /\ n % 2 = 0
           /\ \A i \in 1..n :
                 ConversationSent[i][1] = IF i % 2 = 1 THEN "User" ELSE "Assistant"

\* C17 as stated: a Submit adds one entry, for the current index, and leaves
\* the entries recorded before as they are; the record is emptied only by
\* Retake, a successful Generate Quiz and Clear Session.
C17_AnswersAppendOnly ==
    [][ /\ app_action' = "submit" =>
              /\ current_quiz_index \notin DOMAIN quiz_answers
              /\ DOMAIN quiz_answers' = DOMAIN quiz_answers \cup {current_quiz_index}
              /\ \A i \in DOMAIN quiz_answers : quiz_answers'[i] = quiz_answers[i]
        /\ (DOMAIN quiz_answers # {} /\ DOMAIN quiz_answers' = {}) =>
              \/ app_action' \in {"retake", "clear_session"}
              \/ app_action' = "generate_quiz" /\ app_error' = ""
      ]_vars

\* the score the records give
DerivedScore ==
    Cardinality({ i \in DOMAIN quiz_answers :
                    /\ i < Len(session_quiz_questions)
                    /\ session_quiz_questions[i + 1].type = "multiple_choice"
                    /\ quiz_answers[i] = session_quiz_questions[i + 1].correct_answer })

\* C18 as stated: in every state of a session the stored quiz_score is the
\* number of multiple_choice questions of the quiz answered with their
\* correct_answer.
C18_ScoreIsDerived == quiz_score = DerivedScore

\* C19: a Generate Quiz in which one of the two generation calls fails leaves
\* quiz_questions, quiz_answers, current_quiz_index and quiz_score as they were.
C19_FailedGenerateKeepsQuiz ==
    [][ (app_action' = "generate_quiz" /\ app_error' # "") =>
            UNCHANGED << session_quiz_questions, quiz_answers,
                         current_quiz_index, quiz_score >> ]_vars

\* the short-answer half failed over a quiz that was being answered
C19_Witness ==
    /\ app_action = "generate_quiz"
    /\ app_error # ""
    /\ Len(calls) = 2
    /\ session_quiz_questions # <<>>
    /\ DOMAIN quiz_answers # {}

\* C21 as stated: in every state of a session the index lies between 0 and
\* the length of the quiz, and the answered positions are exactly those before
\* the index.
C21_IndexAndAnswers ==
    /\ 0 <= current_quiz_index
    /\ current_quiz_index <= Len(session_quiz_questions)
    /\ DOMAIN quiz_answers = 0..(current_quiz_index - 1)

\* the history ends with a question that got no reply
Unanswered == chat_history # <<>> /\ chat_history[Len(chat_history)].role = "user"

\* C22: a Send whose get_response call fails adds the user's turn and nothing
\* else to the history, and the next question asked while that turn is the
\* last one is sent with it in the conversation section, right before the
\* new question.
C22_FailedSendKept ==
    [][ /\ (app_action' = "send" /\ chat_call' = "raised") =>
              /\ chat_history' =
                     Append(chat_history, [role |-> "user", content |-> user_question'])
              /\ Len(chat_history') = Len(chat_history) + 1
        /\ (Unanswered /\ Asked') =>
              /\ Len(ConversationSent') >= 2
              /\ ConversationSent'[Len(ConversationSent') - 1] =
                     << "User", chat_history[Len(chat_history)].content >>
              /\ ConversationSent'[Len(ConversationSent')] = << "User", user_question' >>
      ]_vars

\* a question was answered right after one whose call had failed
C22_Witness ==
    /\ Asked
    /\ chat_call = "returned"
    /\ Len(chat_history) = 3
    /\ chat_history[1].role = "user"
    /\ chat_history[2].role = "user"
    /\ ConversationSent = << <<"User", chat_history[1].content>>,
                             <<"User", chat_history[2].content>> >>

----------------------------------------------------------------------------
(* The span the parser decodes, under SpecQuiz. *)

\* the JSON array that starts at the first '[' of the response, if there is one
FirstArrayEnds ==
    LET opens == { i \in 1..Len(ResponseText) : ResponseText[i] = "[" }
        first == CHOOSE i \in opens : \A k \in opens : i <= k
    IN  IF opens = {} THEN {}
        ELSE { j \in first..Len(ResponseText) :
                 json_loads(SubSeq(ResponseText, first, j)).ok }

FirstArray ==
    LET opens == { i \in 1..Len(ResponseText) : ResponseText[i] = "[" }
        first == CHOOSE i \in opens : \A k \in opens : i <= k
        last == CHOOSE j \in FirstArrayEnds : \A k \in FirstArrayEnds : j <= k
    IN  json_loads(SubSeq(ResponseText, first, last)).value

\* C20 as stated: when the first bracketed span of the response is a JSON
\* array of one or more question objects, the quiz is what validation makes of
\* that array, whatever text follows the array.
C20_FirstSpanDecoded ==
    ( /\ quiz_call # "idle"
      /\ QuizInputError(pdf_content, num_questions) = ""
      /\ quiz_outcome.ok
      /\ FirstArrayEnds # {}
      /\ FirstArray # <<>>
      /\ \A k \in 1..Len(FirstArray) : IsDict(FirstArray[k]) )
    => ( /\ quiz_call = "returned"
         /\ quiz_questions = _validate_questions(FirstArray, num_questions).value )

====
